---------------------------- MODULE Spec2Model ----------------------------
(***************************************************************************)
(* A model of the universal-battery-database degradation models and of     *)
(* the cell_database migration 0002.                                        *)
(*                                                                         *)
(* Numbers are exact rationals <<numerator, denominator>> in lowest terms  *)
(* with a positive denominator; float32 rounding is not modelled.  A       *)
(* tensor is a sequence of rationals (one entry per element).               *)
(***************************************************************************)
EXTENDS Integers, Sequences, FiniteSets, TLC

VARIABLES
    inc,        \* the last application of incentive_inequality / incentive_magnitude
    comb,       \* the last application of incentive_combine
    migration,  \* progress of migration 0002: operations applied, failure
    tables,     \* the tables of the cell_database schema
    components, \* the Component rows: id -> (field -> value)
    material_types, \* the MaterialType rows: id -> (field -> value)
    next_id,    \* the next AutoField id of MaterialType
    db_last,    \* the last row operation on the database
    nw_model,   \* neware_parser DegradationModel: the weights of its networks
    nw_call,    \* neware_parser DegradationModel: the last call
    bb_model,   \* Blackbox DegradationModel: the fields set by __init__
    bb_call     \* Blackbox DegradationModel: the last call

incVars == <<inc, comb>>
dbVars == <<migration, tables, components, material_types, next_id, db_last>>
nwVars == <<nw_model, nw_call>>
bbVars == <<bb_model, bb_call>>
vars == <<inc, comb, migration, tables, components, material_types, next_id, db_last,
          nw_model, nw_call, bb_model, bb_call>>

----------------------------------------------------------------------------
(* Bounds of the model.                                                    *)

\* numerators of the tensor elements offered to the incentive functions
MaxNum == 1
\* longest tensor offered to the incentive functions
IncLen == 2

----------------------------------------------------------------------------
(* Exact rational arithmetic.                                              *)

Abs(n) == IF n < 0 THEN -n ELSE n

RECURSIVE GCD(_, _)
GCD(a, b) == IF b = 0 THEN a ELSE GCD(b, a % b)

Rat(n, d) ==
    LET s == IF d < 0 THEN -1 ELSE 1
        g == GCD(Abs(n), Abs(d))
    IN  <<(s * n) \div g, (s * d) \div g>>

RInt(k) == <<k, 1>>
RZero == RInt(0)
ROne == RInt(1)
\* over the least common denominator
RAdd(x, y) ==
    LET g == GCD(x[2], y[2])
    IN  IF x[1] = 0 THEN y
        ELSE IF y[1] = 0 THEN x
        ELSE Rat(x[1] * (y[2] \div g) + y[1] * (x[2] \div g), (x[2] \div g) * y[2])
RNeg(x) == <<-x[1], x[2]>>
RSub(x, y) == RAdd(x, RNeg(y))
\* common factors are cancelled before the products are taken
RMul(x, y) ==
    LET g == GCD(Abs(x[1]), y[2])
        h == GCD(Abs(y[1]), x[2])
    IN  IF x[1] = 0 \/ y[1] = 0 THEN <<0, 1>>
        ELSE <<(x[1] \div g) * (y[1] \div h), (x[2] \div h) * (y[2] \div g)>>
RDivInt(x, k) == Rat(x[1], x[2] * k)
RLt(x, y) == x[1] * y[2] < y[1] * x[2]
RLe(x, y) == x[1] * y[2] <= y[1] * x[2]
RAbs(x) == <<Abs(x[1]), x[2]>>

----------------------------------------------------------------------------
(* Element-wise tensor operations of the framework.                        *)

tf_sub(A, B) == [i \in DOMAIN A \cap DOMAIN B |-> RSub(A[i], B[i])]
tf_nn_relu(A) == [i \in 1..Len(A) |-> IF RLt(RZero, A[i]) THEN A[i] ELSE RZero]
tf_abs(A) == [i \in 1..Len(A) |-> RAbs(A[i])]
tf_square(A) == [i \in 1..Len(A) |-> RMul(A[i], A[i])]
tf_scale(c, A) == [i \in 1..Len(A) |-> RMul(c, A[i])]
\* a scalar broadcast to the shape of an n-element tensor
Fill(n, c) == [i \in 1..n |-> c]

\* the outcome of a Python call: a returned value or a raised exception
Return(v) == [raised |-> FALSE, value |-> v]
Raise == [raised |-> TRUE, value |-> <<>>]

----------------------------------------------------------------------------
(* Enumerations.                                                           *)

Inequality == {"LessThan", "GreaterThan", "Equals"}
Level == {"Strong", "Proportional"}
Target == {"Small", "Big"}
\* a caller may pass any object: one value outside each enumeration
NotAMember == "None"

----------------------------------------------------------------------------
(* incentive_inequality                                                    *)

inequality_intermediate_swapped(A, symbol, B) ==
    IF symbol = "LessThan" THEN Return(tf_nn_relu(tf_sub(A, B)))
    ELSE IF symbol = "GreaterThan" THEN Return(tf_nn_relu(tf_sub(A, B)))
    ELSE IF symbol = "Equals" THEN Return(tf_abs(tf_sub(A, B)))
    ELSE Raise

inequality_intermediate(A, symbol, B) ==
    IF symbol = "LessThan" THEN Return(tf_nn_relu(tf_sub(A, B)))
    ELSE IF symbol = "GreaterThan" THEN Return(tf_nn_relu(tf_sub(B, A)))
    ELSE IF symbol = "Equals" THEN Return(tf_abs(tf_sub(A, B)))
    ELSE Raise

inequality_level_linear(intermediate, level) ==
    IF level = "Strong" THEN Return(intermediate)
    ELSE IF level = "Proportional" THEN Return(tf_scale(RInt(2), intermediate))
    ELSE Raise

inequality_level(intermediate, level) ==
    IF level = "Strong" THEN Return(intermediate)
    ELSE IF level = "Proportional" THEN Return(tf_square(intermediate))
    ELSE Raise

incentive_inequality(A, symbol, B, level) ==
    LET intermediate == inequality_intermediate(A, symbol, B)
    IN  IF intermediate.raised THEN Raise
        ELSE inequality_level(intermediate.value, level)

----------------------------------------------------------------------------
(* incentive_magnitude                                                     *)

magnitude_multiplier_same(target) ==
    IF target = "Small" THEN Return(RInt(1))
    ELSE IF target = "Big" THEN Return(RInt(1))
    ELSE Raise

magnitude_multiplier(target) ==
    IF target = "Small" THEN Return(RInt(1))
    ELSE IF target = "Big" THEN Return(RInt(-1))
    ELSE Raise

magnitude_level_default(A_prime, level) ==
    IF level = "Strong" THEN Return(A_prime)
    ELSE IF level = "Proportional" THEN Return(tf_square(A_prime))
    ELSE Return(A_prime)

magnitude_level(A_prime, level) ==
    IF level = "Strong" THEN Return(A_prime)
    ELSE IF level = "Proportional" THEN Return(tf_square(A_prime))
    ELSE Raise

incentive_magnitude(A, target, level) ==
    LET A_prime == tf_abs(A)
        multiplier == magnitude_multiplier(target)
    IN  IF multiplier.raised THEN Raise
        ELSE LET levelled == magnitude_level(A_prime, level)
             IN  IF levelled.raised THEN Raise
                 ELSE Return(tf_scale(multiplier.value, levelled.value))

----------------------------------------------------------------------------
(* The incentive functions applied to bounded inputs.                      *)

IncValues == {Rat(k, 2) : k \in -MaxNum..MaxNum}
IncTensors(n) == [1..n -> IncValues]
NoCall == [fn |-> "none"]

IncInit ==
    inc = NoCall

CallIncentiveInequality ==
    /\ inc = NoCall
    /\ \E n \in 1..IncLen :
      \E A \in IncTensors(n), B \in IncTensors(n) :
        \E symbol \in Inequality \cup {NotAMember}, level \in Level \cup {NotAMember} :
            inc' = [fn |-> "incentive_inequality", A |-> A, symbol |-> symbol,
                    B |-> B, level |-> level,
                    out |-> incentive_inequality(A, symbol, B, level)]

CallIncentiveMagnitude ==
    /\ inc = NoCall
    /\ \E n \in 1..IncLen :
      \E A \in IncTensors(n) :
        \E target \in Target \cup {NotAMember}, level \in Level \cup {NotAMember} :
            inc' = [fn |-> "incentive_magnitude", A |-> A, target |-> target,
                    level |-> level,
                    out |-> incentive_magnitude(A, target, level)]


----------------------------------------------------------------------------
(* incentive_combine                                                       *)

\* longest list of (coefficient, tensor) tuples offered to incentive_combine
CombLen == 2
\* longest tensor inside a tuple offered to incentive_combine
CombTensorLen == 2

RECURSIVE tensor_sum(_, _)
tensor_sum(T, n) == IF n = 0 THEN RZero ELSE RAdd(tensor_sum(T, n - 1), T[n])

tf_reduce_sum(T) == tensor_sum(T, Len(T))

tf_reduce_mean(T) == RDivInt(tensor_sum(T, Len(T)), Len(T))

\* Python's sum(): a left fold from the integer 0
RECURSIVE py_sum(_, _)
py_sum(xs, n) == IF n = 0 THEN RZero ELSE RAdd(py_sum(xs, n - 1), xs[n])

\* one element of the list comprehension: a[0] * tf.reduce_mean(a[1])
combine_term(a) == RMul(a[1], tf_reduce_mean(a[2]))

incentive_combine(As) ==
    py_sum([i \in 1..Len(As) |-> combine_term(As[i])], Len(As))

CombCoefficients == {RZero, Rat(1, 10), ROne}
CombValues == {RInt(-1), Rat(1, 2)}
CombTensors == UNION {[1..n -> CombValues] : n \in 1..CombTensorLen}
CombTuples == CombCoefficients \X CombTensors
CombLists == UNION {[1..n -> CombTuples] : n \in 0..CombLen}

CombInit == comb = NoCall

CallIncentiveCombine ==
    /\ comb = NoCall
    /\ \E As \in CombLists :
         comb' = [fn |-> "incentive_combine", As |-> As,
                  out |-> incentive_combine(As)]

----------------------------------------------------------------------------
(* cell_database: migration 0002 and the rows of the two tables.           *)

\* Component rows present when the migration starts
MaxComponents == 2
\* MaterialType rows ever created
MaxMaterialTypes == 2

\* the null reference: no row has the id 0
NULL == 0

\* Migration.dependencies
migration_dependencies == << <<"cell_database", "0001_initial">> >>

\* the tables of the migrations that run before this one
tables_of(deps) ==
    IF \E i \in 1..Len(deps) : deps[i] = <<"cell_database", "0001_initial">>
    THEN {"Component"}
    ELSE {}

operations_foreign_key_first ==
    << [op |-> "AddField", model_name |-> "Component", name |-> "material_type",
        field |-> [type |-> "ForeignKey", null |-> TRUE, on_delete |-> "SET_NULL",
                   to |-> "MaterialType", default |-> NULL]],
       [op |-> "CreateModel", name |-> "MaterialType",
        fields |-> [id |-> "AutoField", notes |-> "CharField"]],
       [op |-> "AddField", model_name |-> "Component", name |-> "material_type_name",
        field |-> [type |-> "BooleanField", default |-> FALSE]] >>

\* Migration.operations, in the order of the list
operations ==
    << [op |-> "CreateModel", name |-> "MaterialType",
        fields |-> [id |-> "AutoField", notes |-> "CharField"]],
       [op |-> "AddField", model_name |-> "Component", name |-> "material_type_name",
        field |-> [type |-> "BooleanField", default |-> FALSE]],
       [op |-> "AddField", model_name |-> "Component", name |-> "material_type",
        field |-> [type |-> "ForeignKey", null |-> TRUE, on_delete |-> "SET_NULL",
                   to |-> "MaterialType", default |-> NULL]] >>

\* a row with one more column
with_field_alone(row, name, value) == [f \in {name} |-> value]

with_field(row, name, value) ==
    [f \in DOMAIN row \cup {name} |-> IF f = name THEN value ELSE row[f]]

\* the values of the columns of Component that 0001_initial created
OtherValues == {"p", "q"}

NoRows == [c \in {} |-> NULL]
NoOp == [op |-> "none"]

DbIdle ==
    /\ migration = [applied |-> 0, failed |-> FALSE]
    /\ tables = {}
    /\ components = NoRows
    /\ material_types = NoRows
    /\ next_id = 1
    /\ db_last = NoOp

\* the database as 0001_initial leaves it, with some Component rows
DbInit ==
    /\ migration = [applied |-> 0, failed |-> FALSE]
    /\ tables = tables_of(migration_dependencies)
    /\ \E n \in 0..MaxComponents :
         components \in [1..n -> [other : OtherValues]]
    /\ material_types = NoRows
    /\ next_id = 1
    /\ db_last = NoOp

\* the schema editor applies the next operation of the list
ApplyOperation ==
    /\ ~migration.failed
    /\ migration.applied < Len(operations)
    /\ LET o == operations[migration.applied + 1]
       IN  IF o.op = "CreateModel"
           THEN /\ tables' = tables \cup {o.name}
                /\ material_types' = NoRows
                /\ migration' = [migration EXCEPT !.applied = @ + 1]
                /\ UNCHANGED components
           ELSE IF \/ o.model_name \notin tables
                   \/ o.field.type = "ForeignKey" /\ o.field.to \notin tables
           THEN /\ migration' = [migration EXCEPT !.failed = TRUE]
                /\ UNCHANGED <<tables, components, material_types>>
           ELSE /\ components' =
                    [c \in DOMAIN components |->
                        with_field(components[c], o.name, o.field.default)]
                /\ migration' = [migration EXCEPT !.applied = @ + 1]
                /\ UNCHANGED <<tables, material_types>>
    /\ UNCHANGED <<next_id, db_last>>

Migrated == migration.applied = Len(operations) /\ ~migration.failed

\* the foreign key of the model, as the migration declares it
material_type_field == operations[3].field

\* MaterialType.objects.create(notes = ...)
CreateMaterialType ==
    /\ Migrated
    /\ next_id <= MaxMaterialTypes
    /\ \E notes \in {"", "n"} :
         material_types' =
            [m \in DOMAIN material_types \cup {next_id} |->
                IF m = next_id THEN [id |-> next_id, notes |-> notes]
                ELSE material_types[m]]
    /\ next_id' = next_id + 1
    /\ db_last' = [op |-> "create", id |-> next_id]
    /\ UNCHANGED <<migration, tables, components>>

\* component.material_type = m; component.save(): the foreign key constraint
\* rejects an id that is no MaterialType row, and null is allowed
AssignMaterialType ==
    /\ Migrated
    /\ \E c \in DOMAIN components, m \in (1..MaxMaterialTypes) \cup {NULL} :
         IF m = NULL /\ ~material_type_field.null
         THEN /\ db_last' = [op |-> "rejected", component |-> c, id |-> m]
              /\ UNCHANGED components
         ELSE IF m # NULL /\ m \notin DOMAIN material_types
         THEN /\ db_last' = [op |-> "rejected", component |-> c, id |-> m]
              /\ UNCHANGED components
         ELSE /\ components' = [components EXCEPT ![c].material_type = m]
              /\ db_last' = [op |-> "assign", component |-> c, id |-> m]
    /\ UNCHANGED <<migration, tables, material_types, next_id>>

\* the rows of Component after the collector handled the deletion of MaterialType m
on_delete_cascade(rows, m) ==
    [c \in {x \in DOMAIN rows : rows[x].material_type # m} |-> rows[c]]

on_delete(rows, m) ==
    IF material_type_field.on_delete = "SET_NULL"
    THEN [c \in DOMAIN rows |->
            IF rows[c].material_type = m
            THEN [rows[c] EXCEPT !.material_type = NULL]
            ELSE rows[c]]
    ELSE rows

\* material_type.delete()
DeleteMaterialType ==
    /\ Migrated
    /\ \E m \in DOMAIN material_types :
         /\ components' = on_delete(components, m)
         /\ material_types' = [x \in DOMAIN material_types \ {m} |-> material_types[x]]
         /\ db_last' = [op |-> "delete", id |-> m,
                        referencing |-> {c \in DOMAIN components :
                                            components[c].material_type = m}]
    /\ UNCHANGED <<migration, tables, next_id>>

----------------------------------------------------------------------------
(* neware_parser: the feed-forward networks.  A batched tensor of shape    *)
(* [batch, dim] is a sequence of rows; a tensor of shape [batch, 1] that    *)
(* goes into a loss is the sequence of its elements.                        *)

\* hidden layers of a network (the constructor's depth)
depth == 1
\* units per hidden layer and number of cell features (the constructor's width)
width == 2
\* samples drawn for the incentives (the code draws 64)
NSample == 2

Rows(T) == [i \in 1..Len(T) |-> <<T[i]>>]
Column(X) == [i \in 1..Len(X) |-> X[i][1]]

RECURSIVE tf_concat(_)
\* tf.concat(dependencies, axis = 1)
tf_concat(dependencies) ==
    IF Len(dependencies) = 1 THEN dependencies[1]
    ELSE LET rest == tf_concat(Tail(dependencies))
         IN  [i \in 1..Len(rest) |-> dependencies[1][i] \o rest[i]]

RECURSIVE dot(_, _, _, _)
\* sum over k of x[k] * kernel[k][j]
dot(x, kernel, j, k) ==
    IF k = 0 THEN RZero ELSE RAdd(dot(x, kernel, j, k - 1), RMul(x[k], kernel[k][j]))

relu(x) == IF RLt(RZero, x) THEN x ELSE RZero

\* tf.nn.elu on one element: x for x > 0 and exp(x) - 1 otherwise.  exp is not
\* rational: x / (1 - x) stands for exp(x) - 1 (0 at 0, increasing, above -1,
\* slope 1 at 0).
elu(x) == IF RLt(RZero, x) THEN x ELSE Rat(x[1], x[2] - x[1])

tf_nn_elu(T) == [i \in 1..Len(T) |-> elu(T[i])]

\* a Dense layer applied to a batch
dense(layer, X) ==
    [i \in 1..Len(X) |->
        [j \in 1..Len(layer.bias) |->
            LET pre == RAdd(dot(X[i], layer.kernel, j, Len(X[i])), layer.bias[j])
            IN  IF layer.activation = "relu" THEN relu(pre) ELSE pre]]

RECURSIVE apply_bulk(_, _, _)
apply_bulk(bulk, centers, d) ==
    IF d = 0 THEN centers ELSE dense(bulk[d], apply_bulk(bulk, centers, d - 1))

\* e is evaluated first and F is applied to its value, as an assignment
\* followed by the rest of the function body
Assign(e, F(_)) == CHOOSE r \in {F(x) : x \in {e}} : TRUE

nn_call(nn_func, dependencies) ==
    Assign(tf_concat(dependencies), LAMBDA x :
    Assign(dense(nn_func.initial, x), LAMBDA centers :
    Assign(apply_bulk(nn_func.bulk, centers, Len(nn_func.bulk)), LAMBDA h :
    dense(nn_func.final, h))))

\* The networks feedforward_nn_parameters builds, with weights w = [a, c]: the
\* first hidden unit of the initial layer weighs input k by a[k] (0 past the
\* length of a), the bulk layers pass the first unit on, the final layer
\* multiplies it by c into the first output; every other weight and every
\* bias is 0.  c = 0 is the network as constructed (kernel_initializer zeros).
feedforward_nn_parameters(n_in, last, w) ==
    [initial |-> [kernel |-> [k \in 1..n_in |-> [j \in 1..width |->
                                 IF j = 1 /\ k <= Len(w.a) THEN RInt(w.a[k]) ELSE RZero]],
                  bias |-> [j \in 1..width |-> RZero],
                  activation |-> "relu"],
     bulk |-> [d \in 1..depth |->
                 [kernel |-> [k \in 1..width |-> [j \in 1..width |->
                                 IF j = 1 /\ k = 1 THEN ROne ELSE RZero]],
                  bias |-> [j \in 1..width |-> RZero],
                  activation |-> "relu"]],
     final |-> [kernel |-> [k \in 1..width |-> [j \in 1..last |->
                                 IF j = 1 /\ k = 1 THEN RInt(w.c) ELSE RZero]],
                bias |-> [j \in 1..last |-> RZero],
                activation |-> "none"]]

num_features == width

\* DegradationModel.__init__: the networks the incentives below read
model_networks(ws) ==
    [nn_Q |-> feedforward_nn_parameters(num_features + 1, 1, ws.Q),
     nn_V_plus |-> feedforward_nn_parameters(num_features + 1, 1, ws.V_plus),
     nn_V_minus |-> feedforward_nn_parameters(num_features + 1, 1, ws.V_minus),
     nn_pos_projection |->
         feedforward_nn_parameters(num_features - 1, num_features, ws.pos_projection),
     nn_neg_projection |->
         feedforward_nn_parameters(num_features - 1, num_features, ws.neg_projection)]

W(a, c) == [a |-> a, c |-> c]
\* the weights as constructed, and four settings training can reach
WeightCases ==
    { [Q |-> W(<<1>>, 0), V_plus |-> W(<<1>>, 0), V_minus |-> W(<<1>>, 0),
       pos_projection |-> W(<<1>>, 0), neg_projection |-> W(<<1>>, 0)],
      [Q |-> W(<<1>>, 1), V_plus |-> W(<<1>>, 1), V_minus |-> W(<<1>>, 0),
       pos_projection |-> W(<<1>>, 0), neg_projection |-> W(<<1>>, 0)],
      [Q |-> W(<<1, -1>>, 1), V_plus |-> W(<<1>>, 2), V_minus |-> W(<<1>>, 1),
       pos_projection |-> W(<<1>>, 0), neg_projection |-> W(<<1>>, 0)],
      [Q |-> W(<<1, 0, 1>>, 1), V_plus |-> W(<<1, -1>>, 1), V_minus |-> W(<<1>>, 0),
       pos_projection |-> W(<<1>>, 1), neg_projection |-> W(<<1>>, 1)],
      [Q |-> W(<<1>>, -1), V_plus |-> W(<<1>>, 1), V_minus |-> W(<<1>>, -1),
       pos_projection |-> W(<<1>>, 0), neg_projection |-> W(<<1>>, 0)] }

----------------------------------------------------------------------------
(* neware_parser: nn application functions.  m is the model (self).        *)

\* features[:, 0:1]
norm_constant_direct(features) == [i \in 1..Len(features) |-> SubSeq(features[i], 1, 1)]
\* features[:, 1:]
cell_features_direct(features) ==
    [i \in 1..Len(features) |-> SubSeq(features[i], 2, Len(features[i]))]

pos_projection_direct(m, cell_features) ==
    nn_call(m.nn_pos_projection, <<cell_features>>)

neg_projection_direct(m, cell_features) ==
    nn_call(m.nn_neg_projection, <<cell_features>>)

V_plus_direct(m, Q, cell_features) ==
    Assign(pos_projection_direct(m, cell_features), LAMBDA pos_cell_features :
    Column(nn_call(m.nn_V_plus, <<Rows(Q), pos_cell_features>>)))

V_minus_direct(m, Q, cell_features) ==
    Assign(neg_projection_direct(m, cell_features), LAMBDA neg_cell_features :
    Column(nn_call(m.nn_V_minus, <<Rows(Q), neg_cell_features>>)))

V_plus_for_derivative(m, params) ==
    V_plus_direct(m, params.Q, cell_features_direct(params.features))

V_minus_for_derivative(m, params) ==
    V_minus_direct(m, params.Q, cell_features_direct(params.features))

V_direct(m, Q, shift, cell_features) ==
    Assign(V_plus_direct(m, Q, cell_features), LAMBDA V_plus :
    Assign(V_minus_direct(m, tf_sub(Q, shift), cell_features), LAMBDA V_minus :
    tf_sub(V_plus, V_minus)))

Q_direct(m, voltage, shift, cell_features) ==
    tf_nn_elu(Column(nn_call(m.nn_Q, <<Rows(voltage), Rows(shift), cell_features>>)))

Q_for_derivative(m, params) ==
    Q_direct(m, params.voltage, params.shift, cell_features_direct(params.features))

reciprocal_Q_unshifted(m, params) ==
    Assign(cell_features_direct(params.features), LAMBDA cell_features :
    Assign(V_direct(m, params.Q, Fill(Len(params.Q), RZero), cell_features), LAMBDA V :
    Q_direct(m, V, params.shift, cell_features)))

reciprocal_Q(m, params) ==
    Assign(cell_features_direct(params.features), LAMBDA cell_features :
    Assign(V_direct(m, params.Q, params.shift, cell_features), LAMBDA V :
    Q_direct(m, V, params.shift, cell_features)))

reciprocal_V(m, params) ==
    Assign(cell_features_direct(params.features), LAMBDA cell_features :
    Assign(Q_direct(m, params.voltage, params.shift, cell_features), LAMBDA Q :
    V_direct(m, Q, params.shift, cell_features)))

----------------------------------------------------------------------------
(* neware_parser: create_derivatives.  The tape is the automatic            *)
(* differentiation of the framework: tape[name] is the value it computes    *)
(* for the derivative called name (a jacobian is kept as the sequence of    *)
(* its elements, NSample of them).                                          *)

ParamKeys == {"Q", "voltage", "features", "shift", "cycle", "current"}

prefix_first_order(order) == "d_"

\* 'd_', 'd2_', 'd3_'
prefix(order) == IF order = 1 THEN "d_" ELSE IF order = 2 THEN "d2_" ELSE "d3_"

DerNames == {prefix(order) \o k : order \in 1..3, k \in ParamKeys}

\* Q_scale, shift and r on the sampled parameters: the strain, the stress
\* encoding and the strainless networks behind them are the environment's
Q_scale_for_derivative(env, params) == env.Q_scale
shift_for_derivative(env, params) == env.shift
r_for_derivative(env, params) == env.r

create_derivatives_all_orders(res, params, der_params, tape) ==
    IF \E k \in DOMAIN der_params : der_params[k] >= 1 /\ k \notin DOMAIN params
    THEN Raise
    ELSE LET entries == {<<order, k>> \in (1..3) \X DOMAIN der_params :
                            der_params[k] >= 1}
             derivatives == [name \in {prefix(e[1]) \o e[2] : e \in entries} |->
                                tape[name]]
         IN  Return([res |-> res, derivatives |-> derivatives])

\* res is nn(params), the function handed in applied to params by the tape
create_derivatives(res, params, der_params, tape) ==
    IF \E k \in DOMAIN der_params : der_params[k] >= 1 /\ k \notin DOMAIN params
    THEN Raise
    ELSE LET entries == {<<order, k>> \in (1..3) \X DOMAIN der_params :
                            der_params[k] >= order}
             derivatives == [name \in {prefix(e[1]) \o e[2] : e \in entries} |->
                                tape[name]]
         IN  Return([res |-> res, derivatives |-> derivatives])

\* the keys a block of the loss reads from a dictionary of derivatives
HasKeys(d, keys) == keys \subseteq DOMAIN d

\* a Python scalar broadcast against the tensor A
Scalar(A, c) == Fill(Len(A), c)

RECURSIVE Flatten(_)
\* the elements of a matrix, row after row
Flatten(X) == IF Len(X) = 0 THEN <<>> ELSE Head(X) \o Flatten(Tail(X))

----------------------------------------------------------------------------
(* neware_parser: the blocks of the training loss, each a list of           *)
(* (coefficient, tensor) tuples handed to incentive_combine.                *)

inequality(A, symbol, B, level) == incentive_inequality(A, symbol, B, level).value
magnitude(A, target, level) == incentive_magnitude(A, target, level).value

\* (1. - sampled_latent) * incentive_inequality(sampled, Equals, predicted, Proportional)
projection_term(sampled_latent, sampled, predicted) ==
    Flatten([i \in 1..Len(predicted) |->
                tf_scale(RSub(ROne, sampled_latent[i]),
                         inequality(sampled[i], "Equals", predicted[i], "Proportional"))])

projection_terms(sampled_latent, sampled_pos, predicted_pos, sampled_neg, predicted_neg) ==
    << <<ROne, projection_term(sampled_latent, sampled_pos, predicted_pos)>>,
       <<ROne, projection_term(sampled_latent, sampled_neg, predicted_neg)>> >>

reciprocal_terms(sampled_voltages, sampled_Qs, reciprocal_V_, reciprocal_Q_, V_plus, V_minus, V_plus_der, V_minus_der) ==
    << <<ROne, inequality(sampled_voltages, "Equals", reciprocal_V_, "Proportional")>>,
       <<ROne, inequality(sampled_Qs, "Equals", reciprocal_Q_, "Proportional")>>,
       <<Rat(1, 100), magnitude(V_minus, "Small", "Proportional")>>,
       <<Rat(1, 100), magnitude(V_plus, "Small", "Proportional")>>,
       <<Rat(1, 10), inequality(V_minus, "GreaterThan", Scalar(V_minus, RZero), "Strong")>>,
       <<Rat(1, 10), inequality(V_minus, "LessThan", Scalar(V_minus, RInt(5)), "Strong")>>,
       <<Rat(1, 10), inequality(V_minus_der["d_Q"], "LessThan",
                                Scalar(V_minus_der["d_Q"], RZero), "Strong")>>,
       <<Rat(1, 10), inequality(V_plus, "GreaterThan", Scalar(V_plus, RZero), "Strong")>>,
       <<Rat(1, 10), inequality(V_plus, "LessThan", Scalar(V_plus, RInt(5)), "Strong")>>,
       <<Rat(1, 10), inequality(V_plus_der["d_Q"], "GreaterThan",
                                Scalar(V_plus_der["d_Q"], RZero), "Strong")>> >>

Q_terms_zero_bound(Q, Q_der) ==
    << <<ROne, magnitude(Q, "Small", "Proportional")>>,
       <<RInt(100), inequality(Q, "GreaterThan", Scalar(Q, RZero), "Strong")>>,
       <<RInt(10000), inequality(Q_der["d_voltage"], "GreaterThan",
                                 Scalar(Q_der["d_voltage"], RZero), "Strong")>>,
       <<RInt(100), magnitude(Q_der["d3_voltage"], "Small", "Proportional")>>,
       <<Rat(1, 100), magnitude(Q_der["d_features"], "Small", "Proportional")>>,
       <<Rat(1, 100), magnitude(Q_der["d2_features"], "Small", "Strong")>>,
       <<RInt(100), magnitude(Q_der["d_shift"], "Small", "Proportional")>>,
       <<RInt(100), magnitude(Q_der["d2_shift"], "Small", "Proportional")>>,
       <<RInt(100), magnitude(Q_der["d3_shift"], "Small", "Proportional")>> >>

Q_terms(Q, Q_der) ==
    << <<ROne, magnitude(Q, "Small", "Proportional")>>,
       <<RInt(100), inequality(Q, "GreaterThan", Scalar(Q, RZero), "Strong")>>,
       <<RInt(10000), inequality(Q_der["d_voltage"], "GreaterThan",
                                 Scalar(Q_der["d_voltage"], Rat(1, 20)), "Strong")>>,
       <<RInt(100), magnitude(Q_der["d3_voltage"], "Small", "Proportional")>>,
       <<Rat(1, 100), magnitude(Q_der["d_features"], "Small", "Proportional")>>,
       <<Rat(1, 100), magnitude(Q_der["d2_features"], "Small", "Strong")>>,
       <<RInt(100), magnitude(Q_der["d_shift"], "Small", "Proportional")>>,
       <<RInt(100), magnitude(Q_der["d2_shift"], "Small", "Proportional")>>,
       <<RInt(100), magnitude(Q_der["d3_shift"], "Small", "Proportional")>> >>

Q_scale_terms(Q_scale, Q_scale_der) ==
    << <<RInt(100), inequality(Q_scale, "GreaterThan",
                               Scalar(Q_scale, Rat(1, 100)), "Strong")>>,
       <<RInt(100), inequality(Q_scale, "LessThan", Scalar(Q_scale, ROne), "Strong")>>,
       <<ROne, inequality(Q_scale_der["d_cycle"], "LessThan",
                          Scalar(Q_scale_der["d_cycle"], RZero), "Proportional")>>,
       <<Rat(1, 10), inequality(Q_scale_der["d2_cycle"], "LessThan",
                                Scalar(Q_scale_der["d2_cycle"], RZero), "Proportional")>>,
       <<RInt(100), magnitude(Q_scale_der["d_cycle"], "Small", "Proportional")>>,
       <<RInt(100), magnitude(Q_scale_der["d2_cycle"], "Small", "Proportional")>>,
       <<RInt(100), magnitude(Q_scale_der["d3_cycle"], "Small", "Proportional")>>,
       <<ROne, magnitude(Q_scale_der["d_features"], "Small", "Proportional")>>,
       <<ROne, magnitude(Q_scale_der["d2_features"], "Small", "Strong")>> >>

shift_terms(shift, shift_der) ==
    << <<RInt(100), inequality(shift, "GreaterThan", Scalar(shift, RInt(-1)), "Strong")>>,
       <<RInt(100), inequality(shift, "LessThan", Scalar(shift, ROne), "Strong")>>,
       <<RInt(100), magnitude(shift_der["d_current"], "Small", "Proportional")>>,
       <<RInt(100), magnitude(shift_der["d2_current"], "Small", "Proportional")>>,
       <<RInt(100), magnitude(shift_der["d3_current"], "Small", "Proportional")>>,
       <<ROne, magnitude(shift_der["d_features"], "Small", "Proportional")>>,
       <<ROne, magnitude(shift_der["d2_features"], "Small", "Strong")>> >>

r_terms(r, r_der) ==
    << <<RInt(100), inequality(r, "GreaterThan", Scalar(r, Rat(1, 100)), "Strong")>>,
       <<RInt(100), inequality(r, "GreaterThan", Scalar(r, Rat(1, 100)), "Strong")>>,
       <<RInt(10), magnitude(r_der["d2_cycle"], "Small", "Proportional")>>,
       <<RInt(100), magnitude(r_der["d3_cycle"], "Small", "Proportional")>>,
       <<ROne, magnitude(r_der["d_features"], "Small", "Proportional")>>,
       <<ROne, magnitude(r_der["d2_features"], "Small", "Strong")>> >>

\* coefficient * incentive_combine(terms)
loss(coefficient, terms) == RMul(coefficient, incentive_combine(terms))

----------------------------------------------------------------------------
(* neware_parser: DegradationModel.call.  env holds what the call draws     *)
(* from its surroundings: the random samples, the values of the networks     *)
(* that are not modelled here and the tapes of create_derivatives.          *)

\* the value a function that is not modelled here returns
Pred(fn) == [fn |-> fn]

\* the der_params of the six create_derivatives calls
DerParams ==
    [V_plus |-> [Q |-> 1],
     V_minus |-> [Q |-> 1],
     Q |-> [voltage |-> 3, features |-> 2, shift |-> 3],
     Q_scale |-> [cycle |-> 3, current |-> 0, features |-> 2],
     shift |-> [cycle |-> 3, current |-> 3, features |-> 3],
     r |-> [cycle |-> 3, features |-> 2]]

\* the entries the blocks of the loss read from each dictionary of derivatives
Reads ==
    [V_plus |-> {"d_Q"},
     V_minus |-> {"d_Q"},
     Q |-> {"d_voltage", "d3_voltage", "d_features", "d2_features",
            "d_shift", "d2_shift", "d3_shift"},
     Q_scale |-> {"d_cycle", "d2_cycle", "d3_cycle", "d_features", "d2_features"},
     shift |-> {"d_current", "d2_current", "d3_current", "d_features", "d2_features"},
     r |-> {"d2_cycle", "d3_cycle", "d_features", "d2_features"}]

call_training(m, env) ==
    LET sampled_cell_features == cell_features_direct(env.sampled_features)
        predicted_pos == pos_projection_direct(m, sampled_cell_features)
        predicted_neg == neg_projection_direct(m, sampled_cell_features)
        projection == projection_terms(env.sampled_latent, env.sampled_pos, predicted_pos,
                                       env.sampled_neg, predicted_neg)
        reciprocal_Q_ == reciprocal_Q(m, [Q |-> env.sampled_Qs,
                                          features |-> env.sampled_features,
                                          shift |-> env.sampled_shift])
        reciprocal_V_ == reciprocal_V(m, [voltage |-> env.sampled_voltages,
                                          features |-> env.sampled_features,
                                          shift |-> env.sampled_shift])
        QParams == [Q |-> env.sampled_Qs, features |-> env.sampled_features]
        voltageParams == [voltage |-> env.sampled_voltages,
                          features |-> env.sampled_features,
                          shift |-> env.sampled_shift]
        cycleParams == [cycle |-> env.sampled_cycles,
                        current |-> env.sampled_constant_current,
                        features |-> env.sampled_features,
                        svit_grid |-> Pred("sampled_svit_grid"),
                        count_matrix |-> Pred("sampled_count_matrix")]
        rParams == [cycle |-> env.sampled_cycles,
                    features |-> env.sampled_features,
                    svit_grid |-> Pred("sampled_svit_grid"),
                    count_matrix |-> Pred("sampled_count_matrix")]
        created ==
            [V_plus |-> create_derivatives(V_plus_for_derivative(m, QParams), QParams,
                                           DerParams.V_plus, env.tape.V_plus),
             V_minus |-> create_derivatives(V_minus_for_derivative(m, QParams), QParams,
                                            DerParams.V_minus, env.tape.V_minus),
             Q |-> create_derivatives(Q_for_derivative(m, voltageParams), voltageParams,
                                      DerParams.Q, env.tape.Q),
             Q_scale |-> create_derivatives(Q_scale_for_derivative(env, cycleParams),
                                            cycleParams, DerParams.Q_scale,
                                            env.tape.Q_scale),
             shift |-> create_derivatives(shift_for_derivative(env, cycleParams),
                                          cycleParams, DerParams.shift, env.tape.shift),
             r |-> create_derivatives(r_for_derivative(env, rParams), rParams,
                                      DerParams.r, env.tape.r)]
        res(f) == created[f].value.res
        der(f) == created[f].value.derivatives
        reciprocal == reciprocal_terms(env.sampled_voltages, env.sampled_Qs,
                                       reciprocal_V_, reciprocal_Q_,
                                       res("V_plus"), res("V_minus"),
                                       der("V_plus"), der("V_minus"))
        Q == Q_terms(res("Q"), der("Q"))
        Q_scale == Q_scale_terms(res("Q_scale"), der("Q_scale"))
        shift == shift_terms(res("shift"), der("shift"))
        r == r_terms(res("r"), der("r"))
    IN  IF \E f \in DOMAIN created :
               created[f].raised \/ ~HasKeys(created[f].value.derivatives, Reads[f])
        THEN [fn |-> "call", training |-> TRUE, out |-> Raise]
        ELSE [fn |-> "call", training |-> TRUE,
              sampled_voltages |-> env.sampled_voltages,
              sampled_Qs |-> env.sampled_Qs,
              sampled_shift |-> env.sampled_shift,
              sampled_features |-> env.sampled_features,
              projection_terms |-> projection,
              reciprocal_V |-> reciprocal_V_,
              reciprocal_Q |-> reciprocal_Q_,
              V_plus_der |-> der("V_plus"),
              V_minus_der |-> der("V_minus"),
              reciprocal_terms |-> reciprocal,
              Q_der |-> der("Q"),
              Q_terms |-> Q,
              Q_scale_der |-> der("Q_scale"),
              Q_scale_terms |-> Q_scale,
              shift_terms |-> shift,
              r_terms |-> r,
              out |-> Return(
                 [pred_cc_capacity |-> Pred("cc_capacity"),
                  pred_cv_capacity |-> Pred("cv_capacity"),
                  pred_cc_voltage |-> Pred("cc_voltage"),
                  Q_loss |-> loss(Rat(1, 10000), Q),
                  Q_scale_loss |-> loss(Rat(1, 10000), Q_scale),
                  r_loss |-> loss(Rat(1, 10000), r),
                  shift_loss |-> loss(Rat(1, 10000), shift),
                  z_cell_loss |-> Pred("z_cell_from_indecies"),
                  reciprocal_loss |-> loss(ROne, reciprocal),
                  projection_loss |-> loss(Rat(1, 10), projection)])]

call_evaluation(m) ==
    [fn |-> "call", training |-> FALSE,
     out |-> Return([pred_cc_capacity |-> Pred("cc_capacity"),
                     pred_cv_capacity |-> Pred("cv_capacity"),
                     pred_R |-> Pred("R_direct"),
                     pred_Q_scale |-> Pred("Q_scale_direct"),
                     pred_shift |-> Pred("shift_direct")])]

\* a tensor of NSample elements: a in the first sample, b in the others
Pattern(a, b) == [i \in 1..NSample |-> IF i = 1 THEN a ELSE b]
Patterns(S) == {Pattern(a, b) : a, b \in S}

\* a row of features, all c
FeatureRow(c) == [j \in 1..num_features |-> c]

\* values of a derivative: either side of 0 and of 0.05, and the bounds themselves
DerValues == {Rat(-1, 10), RZero, Rat(1, 40), Rat(1, 20), Rat(1, 10)}

BaseTape == [f \in DOMAIN DerParams |-> [name \in DerNames |-> Fill(NSample, RZero)]]

\* the derivatives whose sign the loss constrains
MonotoneReads ==
    {<<"V_plus", "d_Q">>, <<"V_minus", "d_Q">>, <<"Q", "d_voltage">>, <<"Q_scale", "d_cycle">>}

AllReads == {e \in (DOMAIN DerParams) \X DerNames : e[2] \in Reads[e[1]]}

TapeCases ==
    {[BaseTape EXCEPT ![e[1]][e[2]] = T] : e \in MonotoneReads, T \in Patterns(DerValues)}
    \cup {[BaseTape EXCEPT ![e[1]][e[2]] = Fill(NSample, Rat(1, 10))] : e \in AllReads}

BaseEnv ==
    [sampled_voltages |-> Fill(NSample, RInt(3)),
     sampled_Qs |-> Fill(NSample, Rat(1, 2)),
     sampled_cycles |-> Fill(NSample, RZero),
     sampled_constant_current |-> Fill(NSample, ROne),
     sampled_shift |-> Fill(NSample, RZero),
     sampled_features |-> Fill(NSample, FeatureRow(RZero)),
     sampled_pos |-> Fill(NSample, FeatureRow(RZero)),
     sampled_neg |-> Fill(NSample, FeatureRow(RZero)),
     sampled_latent |-> Fill(NSample, RZero),
     Q_scale |-> Fill(NSample, Rat(1, 2)),
     shift |-> Fill(NSample, RZero),
     r |-> Fill(NSample, Rat(1, 2)),
     tape |-> BaseTape]

\* tf.random.uniform: voltages in [2.5, 5], Qs in [0, 1], shift in [-1, 1]
SampleCases ==
    {[BaseEnv EXCEPT !.sampled_voltages = v, !.sampled_Qs = q,
                     !.sampled_shift = sh, !.sampled_features = f] :
        v \in Patterns({RInt(3), RInt(4)}), q \in Patterns({RZero, Rat(1, 2)}),
        sh \in Patterns({RZero, Rat(1, 2)}),
        f \in {Fill(NSample, FeatureRow(RZero)), Fill(NSample, FeatureRow(Rat(1, 2)))}}

\* the latent flags and the directly stored projections; the networks not modelled
OtherCases ==
    {[BaseEnv EXCEPT !.sampled_latent = l, !.sampled_pos = p, !.sampled_neg = p] :
        l \in Patterns({RZero, ROne}), p \in {Fill(NSample, FeatureRow(ROne))}}
    \cup {[BaseEnv EXCEPT !.Q_scale = a, !.shift = b, !.r = a] :
        a \in Patterns({RZero, Rat(1, 2)}), b \in {Fill(NSample, RInt(2))}}

Envs == SampleCases \cup {[BaseEnv EXCEPT !.tape = t] : t \in TapeCases} \cup OtherCases

NwInit ==
    /\ nw_model \in {model_networks(ws) : ws \in WeightCases}
    /\ nw_call = NoCall

Call ==
    /\ nw_call = NoCall
    /\ \E training \in BOOLEAN :
          IF training
          THEN \E env \in Envs : nw_call' = call_training(nw_model, env)
          ELSE nw_call' = call_evaluation(nw_model)
    /\ UNCHANGED nw_model

\* the largest order of derivative asked of create_derivatives
MaxOrder == 4

\* der_params over the keys of Q's params and one, cycle, that Q's params do
\* not hold
DerParamsCases ==
    UNION {[S -> 0..MaxOrder] : S \in SUBSET {"voltage", "features", "shift", "cycle"}}

\* create_derivatives on its own, on the network Q and its params
CallCreateDerivatives ==
    /\ nw_call = NoCall
    /\ \E der_params \in DerParamsCases, env \in {BaseEnv} :
          LET params == [voltage |-> env.sampled_voltages,
                         features |-> env.sampled_features,
                         shift |-> env.sampled_shift]
          IN  nw_call' = [fn |-> "create_derivatives",
                          params |-> params,
                          der_params |-> der_params,
                          out |-> create_derivatives(Q_for_derivative(nw_model, params),
                                                     params, der_params, env.tape.Q)]
    /\ UNCHANGED nw_model

----------------------------------------------------------------------------
(* machine_learning: the Blackbox DegradationModel.  Its modules Key,       *)
(* PrimitiveDictionaryLayer, loss_calculator_blackbox, incentives and       *)
(* fnn_functions are not among the files modelled.  A member of Key is the  *)
(* string of its name.  A tensor that comes out of one of those modules, or *)
(* out of the random matrix of q_direct, is kept by the name of what        *)
(* produced it and by its shape.                                            *)

\* largest batch of a call
MaxBatch == 2
\* most voltages, and most currents, in a row of a call
MaxCount == 2

Tensor(fn, shape) == [fn |-> fn, shape |-> shape]

\* tf.reshape(t, [-1, columns])
tf_reshape(t, columns) ==
    [t EXCEPT !.shape = <<(t.shape[1] * t.shape[2]) \div columns, columns>>]

tf_range(n) == [i \in 1..n |-> i - 1]

\* max(id_dict.values()); a dict is the sequence of its items
max_value(id_dict) ==
    CHOOSE v \in {id_dict[i][2] : i \in 1..Len(id_dict)} :
        \A i \in 1..Len(id_dict) : id_dict[i][2] <= v

PrimitiveDictionaryLayer(num_feats, id_dict) ==
    [num_feats |-> num_feats, id_dict |-> id_dict, num_keys |-> 1 + max_value(id_dict)]

\* every row of the table takes the flag of the first item found in cell_latent_flags
set_latent_flags_every_row(latent_flags, items, cell_latent_flags) ==
    IF \E i \in 1..Len(items) : items[i][1] \in DOMAIN cell_latent_flags
    THEN LET i == CHOOSE j \in 1..Len(items) : items[j][1] \in DOMAIN cell_latent_flags
         IN  [r \in 1..Len(latent_flags) |-> cell_latent_flags[items[i][1]]]
    ELSE latent_flags

RECURSIVE set_latent_flags(_, _, _)
\* the loop over id_dict.keys(), in the order of the dict
set_latent_flags(latent_flags, items, cell_latent_flags) ==
    IF items = <<>> THEN latent_flags
    ELSE LET cell_id == Head(items)[1]
             index == Head(items)[2]
         IN  set_latent_flags(
                 IF cell_id \in DOMAIN cell_latent_flags
                 THEN [latent_flags EXCEPT ![index + 1] = cell_latent_flags[cell_id]]
                 ELSE latent_flags,
                 Tail(items), cell_latent_flags)

\* __init__; depth and width size the network nn_q
DegradationModel(options, cell_dict, cell_latent_flags) ==
    LET cell_direct == PrimitiveDictionaryLayer(width, cell_dict)
    IN  [min_latent |-> Rat(1, 10), n_sample |-> NSample, options |-> options,
         num_feats |-> width, nn_q |-> Pred("nn_q"), cell_direct |-> cell_direct,
         num_keys |-> cell_direct.num_keys,
         cell_latent_flags |->
             set_latent_flags(Fill(cell_direct.num_keys, ROne), cell_dict,
                              cell_latent_flags)]

cell_from_indices(m, indices, training, sample_noise) ==
    LET feats_cell_direct == Tensor("cell_direct", <<Len(indices), m.num_feats>>)
        gathered == [i \in 1..Len(indices) |-> m.cell_latent_flags[indices[i] + 1]]
        fetched_latent_cell ==
            [i \in 1..Len(indices) |->
                RAdd(m.min_latent, RMul(RSub(ROne, m.min_latent), gathered[i]))]
        feats_cell ==
            Tensor(IF sample_noise THEN "feats_cell + eps" ELSE "feats_cell",
                   feats_cell_direct.shape)
        loss_output_cell == Tensor("loss_output_cell", <<Len(indices), 1>>)
        loss_ == IF training
                 THEN [fn |-> "incentive_combine",
                       As |-> <<<<m.options["coeff_cell_output"], loss_output_cell>>>>]
                 ELSE RZero
    IN  <<feats_cell, loss_, fetched_latent_cell>>

\* env.sampled_indices are the indices tf.random.uniform draws for the cells
sample(m, svit_grid, batch_count, count_matrix, n_sample, env) ==
    LET cell == cell_from_indices(m, env.sampled_indices, FALSE, TRUE)
    IN  [sampled_vs |-> Tensor("sampled_vs", <<n_sample, 1>>),
         sampled_qs |-> Tensor("sampled_qs", <<n_sample, 1>>),
         sampled_cycles |-> Tensor("sampled_cycles", <<n_sample, 1>>),
         sampled_constant_current |-> Tensor("sampled_constant_current", <<n_sample, 1>>),
         sampled_feats_cell |-> cell[1],
         sampled_latent |-> cell[3],
         sampled_svit_grid |-> Tensor(svit_grid.fn, <<n_sample>>),
         sampled_count_matrix |-> Tensor(count_matrix.fn, <<n_sample>>)]

\* random_gaussian_matrix is what np.random.normal(0, sigma, (d, f)) gives in
\* this evaluation.  The result, one row per row of cycle, is kept as the
\* network nn_q applied to the features made of the inputs and of that matrix.
q_direct(m, cycle, v, feats_cell, current, training, random_gaussian_matrix) ==
    LET b == cycle.shape[1]
        input_vector == <<cycle, v, current>>
        dot_product == [fn |-> "tf.einsum", input_vector |-> input_vector,
                        random_gaussian_matrix |-> random_gaussian_matrix]
        dependencies == <<[fn |-> "tf.math.sin", x |-> dot_product],
                          [fn |-> "tf.math.cos", x |-> dot_product], feats_cell>>
    IN  [fn |-> "tf.nn.elu", shape |-> <<b, 1>>, nn_func |-> m.nn_q,
         dependencies |-> dependencies]

q_for_derivative(m, params, training, random_gaussian_matrix) ==
    q_direct(m, params["Key.CYC"], params["Key.V"], params["Key.CELL_FEAT"],
             params["Key.I"], training, random_gaussian_matrix)

\* each row repeated for every voltage (current) of its batch entry
add_v_dep(t, params) ==
    [t EXCEPT !.shape = <<params["Key.COUNT_BATCH"] * params["Key.COUNT_V"], t.shape[2]>>]
add_current_dep(t, params) ==
    [t EXCEPT !.shape = <<params["Key.COUNT_BATCH"] * params["Key.COUNT_I"], t.shape[2]>>]

\* draws holds the random matrices of the two evaluations of q_direct
cc_capacity(m, params, training, draws) ==
    LET q_0 == q_direct(m, params["Key.CYC"], params["Key.V_PREV_END"],
                        params["Key.CELL_FEAT"], params["Key.I_PREV_END"], training,
                        draws[1])
        q_1 == q_direct(m, add_v_dep(params["Key.CYC"], params), params["Key.V"],
                        add_v_dep(params["Key.CELL_FEAT"], params),
                        add_v_dep(params["Key.I_CC"], params), training, draws[2])
    IN  [fn |-> "cc_capacity", shape |-> q_1.shape, q_1 |-> q_1,
         q_0 |-> add_v_dep(q_0, params)]

cv_capacity(m, params, training, draws) ==
    LET q_0 == q_direct(m, params["Key.CYC"], params["Key.V_PREV_END"],
                        params["Key.CELL_FEAT"], params["Key.I_PREV_END"], training,
                        draws[1])
        q_1 == q_direct(m, add_current_dep(params["Key.CYC"], params),
                        add_current_dep(params["Key.V_END"], params),
                        add_current_dep(params["Key.CELL_FEAT"], params),
                        params["Key.I_CV"], training, draws[2])
    IN  [fn |-> "cv_capacity", shape |-> q_1.shape, q_1 |-> q_1,
         q_0 |-> add_current_dep(q_0, params)]

\* res is nn(params); the derivatives are those der_params asks for
fnn_create_derivatives(res, params, der_params) ==
    <<res, [k \in DOMAIN der_params |-> Tensor("derivative", <<der_params[k]>>)]>>

calculate_q_loss(q, q_der, options) == [fn |-> "calculate_q_loss", q |-> q]

\* the keys call reads from params
CallParams ==
    {"Key.CYC", "Key.I_CC", "Key.I_PREV_END", "Key.V_PREV_END", "Key.V_END",
     "Key.INDICES", "Key.V_TENSOR", "Key.I_TENSOR", "Key.SVIT_GRID", "Key.COUNT_MATRIX"}

returns_loss_q_only(returns, q_loss, cell_loss) == ("Key.Loss.Q" :> q_loss) @@ returns

\* returns[Key.Loss.Q] = q_loss; returns[Key.Loss.CELL] = cell_loss
returns_losses(returns, q_loss, cell_loss) ==
    ("Key.Loss.Q" :> q_loss) @@ ("Key.Loss.CELL" :> cell_loss) @@ returns

call(m, params, training, env) ==
    IF ~HasKeys(params, CallParams)
    THEN [fn |-> "call", training |-> training, params |-> DOMAIN params, out |-> Raise]
    ELSE
    LET cell == cell_from_indices(m, params["Key.INDICES"], training, FALSE)
        batch_count == params["Key.CYC"].shape[1]
        voltage_count == params["Key.V_TENSOR"].shape[2]
        current_count == params["Key.I_TENSOR"].shape[2]
        inner ==
            [k \in {"Key.COUNT_BATCH", "Key.COUNT_V", "Key.COUNT_I", "Key.V", "Key.I_CV",
                    "Key.CYC", "Key.I_CC", "Key.I_PREV_END", "Key.V_PREV_END",
                    "Key.CELL_FEAT", "Key.V_END", "Key.SVIT_GRID", "Key.COUNT_MATRIX"} |->
                CASE k = "Key.COUNT_BATCH" -> batch_count
                  [] k = "Key.COUNT_V" -> voltage_count
                  [] k = "Key.COUNT_I" -> current_count
                  [] k = "Key.V" -> tf_reshape(params["Key.V_TENSOR"], 1)
                  [] k = "Key.I_CV" -> tf_reshape(params["Key.I_TENSOR"], 1)
                  [] k = "Key.CELL_FEAT" -> cell[1]
                  [] OTHER -> params[k]]
        pred_cc_capacity ==
            tf_reshape(cc_capacity(m, inner, training, SubSeq(env.random_gaussian_matrix, 1, 2)),
                       voltage_count)
        pred_cv_capacity ==
            tf_reshape(cv_capacity(m, inner, training, SubSeq(env.random_gaussian_matrix, 3, 4)),
                       current_count)
        returns ==
            ("Key.Pred.I_CC" :> pred_cc_capacity) @@ ("Key.Pred.I_CV" :> pred_cv_capacity)
        sampled == sample(m, params["Key.SVIT_GRID"], batch_count,
                          params["Key.COUNT_MATRIX"], m.n_sample, env)
        sampledParams ==
            [k \in {"Key.CYC", "Key.V", "Key.CELL_FEAT", "Key.I"} |->
                CASE k = "Key.CYC" -> sampled.sampled_cycles
                  [] k = "Key.V" -> sampled.sampled_vs
                  [] k = "Key.CELL_FEAT" -> sampled.sampled_feats_cell
                  [] k = "Key.I" -> sampled.sampled_constant_current]
        created ==
            fnn_create_derivatives(
                q_for_derivative(m, sampledParams, TRUE, env.random_gaussian_matrix[5]),
                sampledParams,
                [k \in {"Key.V", "Key.CELL_FEAT", "Key.I", "Key.CYC"} |->
                    IF k = "Key.CELL_FEAT" THEN 2 ELSE 3])
        q_loss == calculate_q_loss(created[1], created[2], m.options)
        cell_loss == cell_from_indices(m, tf_range(m.num_keys), TRUE, FALSE)[2]
    IN  [fn |-> "call", training |-> training, params |-> DOMAIN params,
         fetched_latent_cell |-> cell[3],
         sampled_latent |-> IF training THEN sampled.sampled_latent ELSE <<>>,
         out |-> Return(IF training THEN returns_losses(returns, q_loss, cell_loss)
                        ELSE returns)]

\* the dicts of cell ids handed to __init__: an id_dict gives every id a row
\* of its own, and may leave rows out
CellDicts ==
    {<<<<"a", 0>>, <<"b", 1>>>>, <<<<"b", 0>>, <<"a", 1>>>>, <<<<"a", 0>>, <<"b", 2>>>>,
     <<<<"a", 0>>>>}

CellLatentFlags == UNION {[S -> {RZero, ROne}] : S \in SUBSET {"a", "b"}}

BbInit ==
    /\ \E cell_dict \in CellDicts, cell_latent_flags \in CellLatentFlags :
          bb_model = DegradationModel([coeff_cell_output |-> ROne], cell_dict,
                                      cell_latent_flags)
    /\ bb_call = NoCall

\* the params of a call on a batch of batch_count entries
Params(batch_count, voltage_count, current_count, indices) ==
    [k \in CallParams |->
        CASE k = "Key.INDICES" -> indices
          [] k = "Key.V_TENSOR" -> Tensor(k, <<batch_count, voltage_count>>)
          [] k = "Key.I_TENSOR" -> Tensor(k, <<batch_count, current_count>>)
          [] k \in {"Key.SVIT_GRID", "Key.COUNT_MATRIX"} -> Tensor(k, <<batch_count>>)
          [] OTHER -> Tensor(k, <<batch_count, 1>>)]

ParamsWithout(params, keys) == [k \in DOMAIN params \ keys |-> params[k]]

\* matrices np.random.normal can give: d = 3 rows, f = 32 columns
GaussianMatrices == {Fill(3, Fill(32, x)) : x \in {Rat(-1, 10), Rat(1, 10)}}

\* the matrices of the five evaluations of q_direct inside one call
CallDraws ==
    {Fill(5, M) : M \in GaussianMatrices}
    \cup {[i \in 1..5 |-> IF i % 2 = 1 THEN M ELSE N] :
            M \in GaussianMatrices, N \in GaussianMatrices}

\* call leaves the model as it was, so a second call sees what the first saw
BbCall ==
    /\ bb_call = NoCall
    /\ \E batch_count \in 1..MaxBatch, voltage_count \in 1..MaxCount,
          current_count \in 1..MaxCount, training \in BOOLEAN :
          \E indices \in [1..batch_count -> 0..(bb_model.num_keys - 1)],
             sampled_index \in {0, bb_model.num_keys - 1},
             absent \in {{}, {"Key.INDICES"}, {"Key.COUNT_MATRIX"}},
             draws \in CallDraws :
                bb_call' = call(bb_model,
                                ParamsWithout(Params(batch_count, voltage_count, current_count,
                                               indices), absent),
                                training,
                                [sampled_indices |-> Fill(bb_model.n_sample, sampled_index),
                                 random_gaussian_matrix |-> draws])
    /\ UNCHANGED bb_model

\* the arguments of an evaluation of q_direct on a batch of batch_count entries
QArguments(batch_count) ==
    [k \in {"Key.CYC", "Key.V", "Key.CELL_FEAT", "Key.I"} |->
        Tensor(k, <<batch_count, IF k = "Key.CELL_FEAT" THEN width ELSE 1>>)]

BbQDirect ==
    /\ \E batch_count \in 1..MaxBatch, training \in BOOLEAN,
          random_gaussian_matrix \in GaussianMatrices :
          LET params == QArguments(batch_count)
          IN  bb_call' = [fn |-> "q_direct", params |-> params, training |-> training,
                          out |-> q_direct(bb_model, params["Key.CYC"], params["Key.V"],
                                           params["Key.CELL_FEAT"], params["Key.I"],
                                           training, random_gaussian_matrix)]
    /\ UNCHANGED bb_model

BbQForDerivative ==
    /\ \E batch_count \in 1..MaxBatch, training \in BOOLEAN,
          random_gaussian_matrix \in GaussianMatrices :
          LET params == QArguments(batch_count)
          IN  bb_call' = [fn |-> "q_for_derivative", params |-> params,
                          training |-> training,
                          out |-> q_for_derivative(bb_model, params, training,
                                                   random_gaussian_matrix)]
    /\ UNCHANGED bb_model

----------------------------------------------------------------------------
(* The constructors of the two models, from nothing constructed: the       *)
(* tables of latent flags they build from the dicts they are handed.        *)

\* the dicts of electrolyte ids and of their latent flags
ElectrolyteDicts == {<<<<"e", 0>>>>, <<<<"e", 1>>>>}

\* neware_parser DegradationModel.__init__: the networks, the dictionary
\* layers of the cells and of the electrolytes and their latent flags
neware_DegradationModel(ws, cell_dict, cell_latent_flags, electrolyte_dict, electrolyte_latent_flags) ==
    LET cell_direct == PrimitiveDictionaryLayer(num_features, cell_dict)
        electrolyte_direct == PrimitiveDictionaryLayer(num_features, electrolyte_dict)
    IN  [k \in DOMAIN model_networks(ws) \cup {"cell_direct", "num_keys",
                 "electrolyte_direct", "cell_latent_flags", "electrolyte_latent_flags"} |->
            CASE k = "cell_direct" -> cell_direct
              [] k = "num_keys" -> cell_direct.num_keys
              [] k = "electrolyte_direct" -> electrolyte_direct
              [] k = "cell_latent_flags" ->
                    set_latent_flags(Fill(cell_direct.num_keys, ROne),
                                     cell_direct.id_dict, cell_latent_flags)
              [] k = "electrolyte_latent_flags" ->
                    set_latent_flags(Fill(electrolyte_direct.num_keys, ROne),
                                     electrolyte_direct.id_dict, electrolyte_latent_flags)
              [] OTHER -> model_networks(ws)[k]]

NwConstruct ==
    /\ nw_model = NoCall
    /\ \E ws \in WeightCases, cell_dict \in CellDicts,
          cell_latent_flags \in CellLatentFlags, electrolyte_dict \in ElectrolyteDicts,
          electrolyte_latent_flags \in UNION {[S -> {RZero, ROne}] : S \in SUBSET {"e"}} :
          /\ nw_model' = neware_DegradationModel(ws, cell_dict, cell_latent_flags,
                                                 electrolyte_dict, electrolyte_latent_flags)
          /\ nw_call' = [fn |-> "__init__", cell_latent_flags |-> cell_latent_flags,
                          electrolyte_latent_flags |-> electrolyte_latent_flags]

BbConstruct ==
    /\ bb_model = NoCall
    /\ \E cell_dict \in CellDicts, cell_latent_flags \in CellLatentFlags :
          /\ bb_model' = DegradationModel([coeff_cell_output |-> ROne], cell_dict,
                                          cell_latent_flags)
          /\ bb_call' = [fn |-> "__init__", cell_latent_flags |-> cell_latent_flags]

----------------------------------------------------------------------------
(* Specifications: one per part of the repository.  The parts share no     *)
(* state; a specification holds the other parts' variables still.          *)

IncIdle == inc = NoCall
CombIdle == comb = NoCall

NwIdle == nw_model = NoCall /\ nw_call = NoCall
BbIdle == bb_model = NoCall /\ bb_call = NoCall

InitIncentive == IncInit /\ CombIdle /\ DbIdle /\ NwIdle /\ BbIdle

NextIncentive ==
    \/ CallIncentiveInequality /\ UNCHANGED <<comb, dbVars, nwVars, bbVars>>
    \/ CallIncentiveMagnitude /\ UNCHANGED <<comb, dbVars, nwVars, bbVars>>

SpecIncentive == InitIncentive /\ [][NextIncentive]_vars

InitCombine == CombInit /\ IncIdle /\ DbIdle /\ NwIdle /\ BbIdle

NextCombine == CallIncentiveCombine /\ UNCHANGED <<inc, dbVars, nwVars, bbVars>>

SpecCombine == InitCombine /\ [][NextCombine]_vars

InitMigration == DbInit /\ IncIdle /\ CombIdle /\ NwIdle /\ BbIdle

NextMigration ==
    \/ ApplyOperation /\ UNCHANGED <<incVars, nwVars, bbVars>>
    \/ CreateMaterialType /\ UNCHANGED <<incVars, nwVars, bbVars>>
    \/ AssignMaterialType /\ UNCHANGED <<incVars, nwVars, bbVars>>
    \/ DeleteMaterialType /\ UNCHANGED <<incVars, nwVars, bbVars>>

SpecMigration == InitMigration /\ [][NextMigration]_vars

InitCall == NwInit /\ IncIdle /\ CombIdle /\ DbIdle /\ BbIdle

NextCall == Call /\ UNCHANGED <<incVars, dbVars, bbVars>>

SpecCall == InitCall /\ [][NextCall]_vars

NextDerivatives == CallCreateDerivatives /\ UNCHANGED <<incVars, dbVars, bbVars>>

SpecDerivatives == InitCall /\ [][NextDerivatives]_vars

InitConstruct == IncIdle /\ CombIdle /\ DbIdle /\ NwIdle /\ BbIdle

NextConstruct ==
    \/ NwConstruct /\ UNCHANGED <<incVars, dbVars, bbVars>>
    \/ BbConstruct /\ UNCHANGED <<incVars, dbVars, nwVars>>

SpecConstruct == InitConstruct /\ [][NextConstruct]_vars

InitBlackbox == BbInit /\ IncIdle /\ CombIdle /\ DbIdle /\ NwIdle

NextBlackbox ==
    \/ BbCall /\ UNCHANGED <<incVars, dbVars, nwVars>>
    \/ BbQDirect /\ UNCHANGED <<incVars, dbVars, nwVars>>
    \/ BbQForDerivative /\ UNCHANGED <<incVars, dbVars, nwVars>>

SpecBlackbox == InitBlackbox /\ [][NextBlackbox]_vars

----------------------------------------------------------------------------
(* Properties of the incentive functions.                                  *)

IncCalled(fn) == inc.fn = fn
IncReturned(fn) == inc.fn = fn /\ ~inc.out.raised
RMax(x, y) == IF RLt(x, y) THEN y ELSE x

\* the relation 'a symbol b' and its violation
RelationHolds(a, symbol, b) ==
    CASE symbol = "LessThan" -> RLt(a, b)
      [] symbol = "GreaterThan" -> RLt(b, a)
      [] symbol = "Equals" -> a = b
WrongSide(a, symbol, b) ==
    CASE symbol = "LessThan" -> RLt(b, a)
      [] symbol = "GreaterThan" -> RLt(a, b)
      [] symbol = "Equals" -> a # b
\* the L1 violation of 'a symbol b'
L1Violation(a, symbol, b) ==
    CASE symbol = "LessThan" -> RMax(RSub(a, b), RZero)
      [] symbol = "GreaterThan" -> RMax(RSub(b, a), RZero)
      [] symbol = "Equals" -> RAbs(RSub(a, b))

\* C3: incentive_inequality returns, for a valid symbol and level, a loss that
\* is never negative, is 0 wherever the requested relation holds and is
\* strictly positive wherever A is on the wrong side of B.
C3_InequalitySign ==
    IncCalled("incentive_inequality") =>
        /\ (inc.symbol \in Inequality /\ inc.level \in Level) => ~inc.out.raised
        /\ ~inc.out.raised =>
             /\ Len(inc.out.value) = Len(inc.A)
             /\ \A i \in 1..Len(inc.A) :
                  /\ RLe(RZero, inc.out.value[i])
                  /\ RelationHolds(inc.A[i], inc.symbol, inc.B[i])
                        => inc.out.value[i] = RZero
                  /\ WrongSide(inc.A[i], inc.symbol, inc.B[i])
                        => RLt(RZero, inc.out.value[i])

C3_Witness ==
    /\ IncReturned("incentive_inequality")
    /\ inc.symbol = "GreaterThan" /\ inc.level = "Proportional"
    /\ \E i \in 1..Len(inc.A) :
         RLt(inc.A[i], inc.B[i]) /\ RLt(RZero, inc.out.value[i])
    /\ \E i \in 1..Len(inc.A) :
         RLt(inc.B[i], inc.A[i]) /\ inc.out.value[i] = RZero

\* C4: Level.Strong returns the L1 violation itself, Level.Proportional the
\* square of that violation, so the Proportional result is the Strong result
\* of the same A, symbol and B squared.
C4_StrongIsL1ProportionalIsSquare ==
    IncReturned("incentive_inequality") =>
        LET strong == incentive_inequality(inc.A, inc.symbol, inc.B, "Strong").value
        IN  /\ \A i \in 1..Len(inc.A) :
                 LET l1 == L1Violation(inc.A[i], inc.symbol, inc.B[i])
                 IN  /\ inc.level = "Strong" => inc.out.value[i] = l1
                     /\ inc.level = "Proportional" => inc.out.value[i] = RMul(l1, l1)
            /\ inc.level = "Proportional" =>
                 inc.out.value = [i \in 1..Len(inc.A) |-> RMul(strong[i], strong[i])]

C4_Witness ==
    /\ IncReturned("incentive_inequality")
    /\ inc.level = "Proportional" /\ inc.symbol = "LessThan"
    /\ \E i \in 1..Len(inc.A) :
         /\ RSub(inc.A[i], inc.B[i]) = Rat(1, 2)
         /\ inc.out.value[i] = Rat(1, 4)

\* C5: incentive_magnitude with Target.Small returns |A| (Strong) or A squared
\* (Proportional): never negative and 0 exactly where A is 0; with Target.Big
\* it returns the negation of the Target.Small result for the same A and level.
C5_MagnitudeSmallAndBig ==
    IncReturned("incentive_magnitude") =>
        LET small == incentive_magnitude(inc.A, "Small", inc.level).value
        IN  /\ Len(inc.out.value) = Len(inc.A)
            /\ inc.target = "Small" =>
                 \A i \in 1..Len(inc.A) :
                    /\ inc.level = "Strong" => inc.out.value[i] = RAbs(inc.A[i])
                    /\ inc.level = "Proportional" =>
                          inc.out.value[i] = RMul(inc.A[i], inc.A[i])
                    /\ RLe(RZero, inc.out.value[i])
                    /\ (inc.out.value[i] = RZero) <=> (inc.A[i] = RZero)
            /\ inc.target = "Big" =>
                 \A i \in 1..Len(inc.A) :
                    /\ inc.out.value[i] = RNeg(small[i])
                    /\ inc.level = "Strong" => inc.out.value[i] = RNeg(RAbs(inc.A[i]))
                    /\ inc.level = "Proportional" =>
                          inc.out.value[i] = RNeg(RMul(inc.A[i], inc.A[i]))

C5_Witness ==
    /\ IncReturned("incentive_magnitude")
    /\ inc.target = "Big" /\ inc.level = "Proportional"
    /\ \E i \in 1..Len(inc.A) :
         inc.A[i] = Rat(-1, 2) /\ inc.out.value[i] = Rat(-1, 4)

\* C6: each incentive function raises, and returns no loss, exactly when an
\* argument is outside its enumeration: the symbol or the level for
\* incentive_inequality, the target or the level for incentive_magnitude.
C6_RaisesOnUnknownEnum ==
    /\ IncCalled("incentive_inequality") =>
         /\ inc.out.raised <=> (inc.symbol \notin Inequality \/ inc.level \notin Level)
         /\ inc.out.raised => inc.out.value = <<>>
    /\ IncCalled("incentive_magnitude") =>
         /\ inc.out.raised <=> (inc.target \notin Target \/ inc.level \notin Level)
         /\ inc.out.raised => inc.out.value = <<>>

C6_Witness ==
    /\ IncCalled("incentive_magnitude")
    /\ inc.target \in Target /\ inc.level \notin Level
    /\ inc.out.raised

----------------------------------------------------------------------------
(* Properties of incentive_combine.                                        *)

RECURSIVE SumOfTerms(_, _)
\* sum over the tuples i..Len(As) of coefficient times the mean of the tensor
SumOfTerms(As, i) ==
    IF i > Len(As) THEN RZero
    ELSE LET c == As[i][1]
             T == As[i][2]
             total == tensor_sum(T, Len(T))
         IN  RAdd(Rat(c[1] * total[1], c[2] * total[2] * Len(T)), SumOfTerms(As, i + 1))

Permuted(As, p) == [i \in 1..Len(As) |-> As[p[i]]]
Without(As, k) == [i \in 1..(Len(As) - 1) |-> IF i < k THEN As[i] ELSE As[i + 1]]

\* C7: incentive_combine returns the sum over its tuples of coefficient times
\* the mean of the tensor: the order of the tuples does not matter, a tuple
\* with coefficient 0 contributes nothing, and the empty list gives 0.
C7_CombineIsWeightedSumOfMeans ==
    comb.fn = "incentive_combine" =>
        /\ comb.out = SumOfTerms(comb.As, 1)
        /\ \A p \in Permutations(1..Len(comb.As)) :
             incentive_combine(Permuted(comb.As, p)) = comb.out
        /\ \A k \in 1..Len(comb.As) :
             comb.As[k][1] = RZero =>
                incentive_combine(Without(comb.As, k)) = comb.out
        /\ comb.As = <<>> => comb.out = RZero

C7_Witness ==
    /\ comb.fn = "incentive_combine"
    /\ Len(comb.As) = 2
    /\ comb.As[1][1] = RZero /\ comb.As[2][1] = Rat(1, 10)
    /\ comb.As[1][2] = <<RInt(-1)>>
    /\ comb.As[2][2] = <<RInt(-1), Rat(1, 2)>>
    /\ comb.out = Rat(-1, 40)

----------------------------------------------------------------------------
(* Properties of the database.                                             *)

\* C8: after the migration every Component's material_type is null or refers
\* to an existing MaterialType, and deleting a MaterialType sets material_type
\* to null on exactly the Components that referenced it and deletes no Component.
C8_ReferentialIntegrity ==
    /\ [](Migrated =>
            \A c \in DOMAIN components :
                \/ components[c].material_type = NULL
                \/ components[c].material_type \in DOMAIN material_types)
    /\ [][(Migrated /\ DOMAIN material_types' # DOMAIN material_types
                    /\ DOMAIN material_types' \subseteq DOMAIN material_types) =>
            /\ DOMAIN components' = DOMAIN components
            /\ \A c \in DOMAIN components :
                 IF components[c].material_type \in
                        DOMAIN material_types \ DOMAIN material_types'
                 THEN components'[c] = [components[c] EXCEPT !.material_type = NULL]
                 ELSE components'[c] = components[c]]_vars

C8_Witness ==
    /\ Migrated
    /\ db_last.op = "delete"
    /\ db_last.referencing # {}
    /\ \A c \in db_last.referencing : components[c].material_type = NULL
    /\ \E c \in DOMAIN components : components[c].material_type \in DOMAIN material_types

\* the columns the rows of Component carry
HasColumn(name) == \A c \in DOMAIN components : name \in DOMAIN components[c]
LacksColumn(name) == \A c \in DOMAIN components : name \notin DOMAIN components[c]

\* C12: the migration runs on the tables of 0001_initial and never fails; its
\* operations are three, all CreateModel or AddField, and take effect in the
\* order MaterialType, Component.material_type_name, Component.material_type:
\* the MaterialType table exists whenever a row carries the foreign key.
C12_ThreeOperationsInOrder ==
    /\ "Component" \in tables
    /\ ~migration.failed
    /\ migration.applied <= 3
    /\ \A i \in 1..Len(operations) : operations[i].op \in {"CreateModel", "AddField"}
    /\ "MaterialType" \in tables <=> migration.applied >= 1
    /\ IF migration.applied >= 2 THEN HasColumn("material_type_name")
                                 ELSE LacksColumn("material_type_name")
    /\ IF migration.applied >= 3 THEN HasColumn("material_type")
                                 ELSE LacksColumn("material_type")
    /\ Migrated <=> migration.applied = 3

C12_Witness ==
    /\ migration.applied = 2
    /\ "MaterialType" \in tables
    /\ components # NoRows
    /\ HasColumn("material_type_name")
    /\ LacksColumn("material_type")

\* C13: right after the migration (before any row operation) every Component
\* row has material_type_name = False and material_type = null and there is no
\* MaterialType row; the operations of the migration add or remove no
\* Component row and change no column a row already had.
C13_MigrationFrame ==
    /\ [](Migrated /\ db_last = NoOp =>
            /\ material_types = NoRows
            /\ \A c \in DOMAIN components :
                 /\ {"material_type_name", "material_type"} \subseteq DOMAIN components[c]
                 /\ components[c].material_type_name = FALSE
                 /\ components[c].material_type = NULL)
    /\ [][migration' # migration =>
            /\ DOMAIN components' = DOMAIN components
            /\ \A c \in DOMAIN components :
                 \A name \in DOMAIN components[c] :
                    /\ name \in DOMAIN components'[c]
                    /\ components'[c][name] = components[c][name]]_vars

C13_Witness ==
    /\ Migrated
    /\ db_last = NoOp
    /\ Cardinality(DOMAIN components) = MaxComponents
    /\ \E c \in DOMAIN components : components[c].other = "p"
    /\ \A c \in DOMAIN components : components[c].material_type = NULL


----------------------------------------------------------------------------
(* Properties of DegradationModel.call of neware_parser.                   *)

Called == nw_call.fn = "call"
Trained == Called /\ nw_call.training /\ ~nw_call.out.raised

TrainingKeys ==
    {"pred_cc_capacity", "pred_cv_capacity", "pred_cc_voltage", "Q_loss", "Q_scale_loss",
     "r_loss", "shift_loss", "z_cell_loss", "reciprocal_loss", "projection_loss"}
EvaluationKeys ==
    {"pred_cc_capacity", "pred_cv_capacity", "pred_R", "pred_Q_scale", "pred_shift"}
LossKeys == {k \in TrainingKeys : k \notin {"pred_cc_capacity", "pred_cv_capacity",
                                             "pred_cc_voltage"}}

\* C1: a call with training = True returns a dictionary with exactly the ten
\* training keys (three predictions and seven losses); a call with
\* training = False returns exactly the five prediction keys and no loss key.
C1_CallKeys ==
    Called =>
        /\ ~nw_call.out.raised
        /\ nw_call.training => DOMAIN nw_call.out.value = TrainingKeys
        /\ ~nw_call.training =>
              /\ DOMAIN nw_call.out.value = EvaluationKeys
              /\ DOMAIN nw_call.out.value \cap LossKeys = {}

C1_Witness ==
    /\ Trained
    /\ LossKeys \subseteq DOMAIN nw_call.out.value
    /\ RLt(RZero, nw_call.out.value.Q_loss)

\* the two round trips on the samples of the call, computed from the networks
RoundTripV ==
    Assign(cell_features_direct(nw_call.sampled_features), LAMBDA f :
    Assign(Q_direct(nw_model, nw_call.sampled_voltages, nw_call.sampled_shift, f), LAMBDA Q :
    V_direct(nw_model, Q, nw_call.sampled_shift, f)))

RoundTripQ ==
    Assign(cell_features_direct(nw_call.sampled_features), LAMBDA f :
    Assign(V_direct(nw_model, nw_call.sampled_Qs, nw_call.sampled_shift, f), LAMBDA V :
    Q_direct(nw_model, V, nw_call.sampled_shift, f)))

\* two tensors are equal when they agree on every sample
RoundTripsHold ==
    /\ RoundTripV = nw_call.sampled_voltages
    /\ RoundTripQ = nw_call.sampled_Qs

\* what the two reciprocity terms add to reciprocal_loss
Reciprocity ==
    RAdd(combine_term(nw_call.reciprocal_terms[1]),
         combine_term(nw_call.reciprocal_terms[2]))

\* C9: the reciprocity terms add zero to reciprocal_loss exactly when, for
\* every sample, V_direct(Q_direct(v)) = v and Q_direct(V_direct(q)) = q under
\* the sampled shift and cell features; otherwise they add a positive amount.
C9_ReciprocityZeroIffRoundTrips ==
    Trained =>
        /\ RoundTripsHold <=> Reciprocity = RZero
        /\ ~RoundTripsHold => RLt(RZero, Reciprocity)
        /\ nw_call.out.value.reciprocal_loss =
              loss(ROne, nw_call.reciprocal_terms)

C9_Witness ==
    /\ Trained
    /\ RoundTripsHold
    /\ Reciprocity = RZero
    /\ \E i \in 1..NSample : nw_call.sampled_shift[i] # RZero
    /\ \E i \in 1..NSample : nw_call.sampled_Qs[i] # RZero

\* every sample of the tensor d satisfies lo <= d or d <= hi
AllAtLeast(d, lo) == \A i \in 1..Len(d) : RLe(lo, d[i])
AllAtMost(d, hi) == \A i \in 1..Len(d) : RLe(d[i], hi)

\* a term adds zero when ok holds and a positive amount otherwise
ZeroIff(term, ok) ==
    /\ ok <=> combine_term(term) = RZero
    /\ ~ok => RLt(RZero, combine_term(term))

\* C10: the monotonicity terms add zero exactly when every sampled derivative
\* is on the required side (dV_plus/dQ >= 0, dV_minus/dQ <= 0,
\* dQ/dvoltage >= 0.05, dQ_scale/dcycle <= 0) and a positive amount otherwise.
C10_MonotonicityZeroIffSign ==
    Trained =>
        /\ ZeroIff(nw_call.reciprocal_terms[10], AllAtLeast(nw_call.V_plus_der["d_Q"], RZero))
        /\ ZeroIff(nw_call.reciprocal_terms[7], AllAtMost(nw_call.V_minus_der["d_Q"], RZero))
        /\ ZeroIff(nw_call.Q_terms[3], AllAtLeast(nw_call.Q_der["d_voltage"], Rat(1, 20)))
        /\ ZeroIff(nw_call.Q_scale_terms[3], AllAtMost(nw_call.Q_scale_der["d_cycle"], RZero))

C10_Witness ==
    /\ Trained
    /\ nw_call.V_plus_der["d_Q"][1] = Rat(-1, 10)
    /\ nw_call.V_plus_der["d_Q"][NSample] = Rat(1, 10)
    /\ RLt(RZero, combine_term(nw_call.reciprocal_terms[10]))
    /\ combine_term(nw_call.reciprocal_terms[7]) = RZero

----------------------------------------------------------------------------
(* Properties of DegradationModel.call of the Blackbox model.              *)

BbCalled == bb_call.fn = "call"
BbReturned == BbCalled /\ ~bb_call.out.raised

PredKeys == {"Key.Pred.I_CC", "Key.Pred.I_CV"}
BbLossKeys == {"Key.Loss.Q", "Key.Loss.CELL"}

\* C2: a call given the params it reads returns a dictionary; the dictionary
\* always holds Key.Pred.I_CC and Key.Pred.I_CV, and it holds Key.Loss.Q and
\* Key.Loss.CELL (each of them) exactly when training is True.
C2_BlackboxCallKeys ==
    /\ BbCalled /\ CallParams \subseteq bb_call.params => ~bb_call.out.raised
    /\ BbReturned =>
          /\ PredKeys \subseteq DOMAIN bb_call.out.value
          /\ \A k \in BbLossKeys : k \in DOMAIN bb_call.out.value <=> bb_call.training
          /\ DOMAIN bb_call.out.value \subseteq PredKeys \cup BbLossKeys

C2_Witness ==
    /\ BbReturned
    /\ bb_call.training
    /\ DOMAIN bb_call.out.value = PredKeys \cup BbLossKeys
    /\ bb_call.out.value["Key.Pred.I_CC"].shape = <<MaxBatch, MaxCount>>

\* an evaluation of the state of charge, through q_direct or q_for_derivative
QEvaluated(c) == c.fn \in {"q_direct", "q_for_derivative"}

\* C11: two evaluations in a row of the state of charge (each through q_direct
\* or through q_for_derivative) on the same model, with the same cycle, voltage,
\* current and cell features and the same training flag, give the same value.
C11_SameStateOfCharge ==
    [][(/\ QEvaluated(bb_call) /\ QEvaluated(bb_call')
        /\ bb_call'.params = bb_call.params
        /\ bb_call'.training = bb_call.training)
       => bb_call'.out = bb_call.out]_vars

----------------------------------------------------------------------------
(* Properties of the constructors.                                          *)

\* the table holds, at the row of every id, the id's flag or 1 when it has
\* none, and 1 at the rows of no id
TableMatches(table, id_dict, flags) ==
    /\ \A i \in 1..Len(id_dict) :
          table[id_dict[i][2] + 1] =
              IF id_dict[i][1] \in DOMAIN flags THEN flags[id_dict[i][1]] ELSE ROne
    /\ \A r \in 1..Len(table) :
          (\A i \in 1..Len(id_dict) : id_dict[i][2] + 1 # r) => table[r] = ROne

\* C14: the table of latent flags a constructor builds matches the dict: the
\* row of every id holds the id's latent flag when it has one and 1 otherwise,
\* and a row of no id holds 1; for the cells of both models and for the
\* electrolytes of the neware_parser model.
C14_LatentFlagsMatchDict ==
    /\ nw_call.fn = "__init__" =>
          /\ TableMatches(nw_model.cell_latent_flags, nw_model.cell_direct.id_dict,
                          nw_call.cell_latent_flags)
          /\ TableMatches(nw_model.electrolyte_latent_flags,
                          nw_model.electrolyte_direct.id_dict,
                          nw_call.electrolyte_latent_flags)
    /\ bb_call.fn = "__init__" =>
          TableMatches(bb_model.cell_latent_flags, bb_model.cell_direct.id_dict,
                       bb_call.cell_latent_flags)

C14_Witness ==
    /\ nw_call.fn = "__init__"
    /\ bb_call.fn = "__init__"
    /\ nw_model.cell_latent_flags = <<RZero, ROne, ROne>>
    /\ nw_model.electrolyte_latent_flags = <<ROne, RZero>>
    /\ bb_model.cell_latent_flags = <<ROne, RZero>>
    /\ DOMAIN bb_call.cell_latent_flags = {"a"}

----------------------------------------------------------------------------
(* create_derivatives: the entries of the dictionary it returns.            *)

DerivativesCreated == nw_call.fn = "create_derivatives" /\ ~nw_call.out.raised

\* C15: create_derivatives returns, for each key k of der_params, an entry
\* 'd_k' iff der_params[k] >= 1, 'd2_k' iff der_params[k] >= 2 and 'd3_k' iff
\* der_params[k] >= 3: a k of order 0 has no entry, and where 'd3_k' is
\* present so are 'd2_k' and 'd_k'.
C15_DerivativeKeys ==
    DerivativesCreated =>
        LET derivatives == nw_call.out.value.derivatives
            der_params == nw_call.der_params
        IN  \A k \in DOMAIN der_params :
               /\ ("d_" \o k) \in DOMAIN derivatives <=> der_params[k] >= 1
               /\ ("d2_" \o k) \in DOMAIN derivatives <=> der_params[k] >= 2
               /\ ("d3_" \o k) \in DOMAIN derivatives <=> der_params[k] >= 3
               /\ der_params[k] = 0 =>
                     {"d_" \o k, "d2_" \o k, "d3_" \o k} \cap DOMAIN derivatives = {}
               /\ ("d3_" \o k) \in DOMAIN derivatives =>
                     {"d2_" \o k, "d_" \o k} \subseteq DOMAIN derivatives

C15_Witness ==
    /\ DerivativesCreated
    /\ nw_call.der_params = [voltage |-> 3, features |-> 2, shift |-> 1, cycle |-> 0]
    /\ DOMAIN nw_call.out.value.derivatives =
          {"d_voltage", "d2_voltage", "d3_voltage", "d_features", "d2_features",
           "d_shift"}

=============================================================================
